---- MODULE Spec2Model ----
(***************************************************************************)
(* Verification model of the combinatorial core of the 2-D geometric       *)
(* constraint solver: the method graph (solver/method.py), the             *)
(* multi-valued methods and the cluster algebra                            *)
(* (solver/geometric/cluster.py).                                          *)
(*                                                                         *)
(* Variables of a method graph are modelled by the integers 1..NumVars     *)
(* (the source accepts any hashable object).  Python's None is the value   *)
(* None; every other value is a natural number.                            *)
(***************************************************************************)
EXTENDS Integers, Sequences, FiniteSets, TLC

(***************************************************************************)
(* Bounds of the model.                                                    *)
(***************************************************************************)
NumVars == 2
NumFlowVars == 4
MaxVal == 1
MaxInput == 4
NumPoints == 5
NumConfVars == 3
MaxCoord == 1
NumCVars == 3
MaxQueryLen == 2
MaxConstraints == 2
NumRemVars == 3

None == -1

Variables == 1..NumVars
FlowVariables == 1..NumFlowVars
Values == 1..MaxVal

Range(s) == {s[i] : i \in DOMAIN s}

(***************************************************************************)
(* Method.__init__: a method is its name, its ordered inputs and its       *)
(* ordered outputs.  The universe holds one instance per signature.        *)
(* AddMethod(a, b, c) has inputs [a, b] and outputs [c]; GenericMethods    *)
(* holds them and instances of further subclasses of Method, with one      *)
(* input and one or two outputs.                                           *)
(***************************************************************************)
Method(name, inputs, outputs) ==
    [name |-> name, inputs |-> inputs, outputs |-> outputs]

AddMethod(a, b, c) == Method("AddMethod", <<a, b>>, <<c>>)

\* the methods over Variables of one or two inputs (which may be the same
\* variable, and are listed in order) and one output, and of one input and
\* two outputs; those of two inputs and one output are AddMethods
GenericMethods ==
    LET ins1  == {<<a>> : a \in Variables}
        ins2  == {i \in Variables \X Variables : i[1] <= i[2]}
        outs1 == {<<c>> : c \in Variables}
        outs2 == {o \in Variables \X Variables : o[1] # o[2]}
    IN  {Method("Method", i, o) : i \in ins1, o \in outs1 \cup outs2}
        \cup {Method("AddMethod", i, o) : i \in ins2, o \in outs1}

AddMethods == {met \in GenericMethods : met.name = "AddMethod"}

\* the AddMethods over the variables V whose output is numbered above its
\* inputs: every graph of them is acyclic
OrderedAddMethods(V) ==
    {AddMethod(t[1], t[2], t[3]) :
        t \in {x \in V \X V \X V : x[1] <= x[2] /\ x[2] < x[3]}}

FlowMethods == OrderedAddMethods(FlowVariables)

DeferMethods == OrderedAddMethods(Variables)

NoMethod == Method("none", <<>>, <<>>)

(***************************************************************************)
(* The directed graph container (solver/graph.py).  Its vertices are the   *)
(* variables and the methods; edges run from a variable to a method (vm)   *)
(* or from a method to a variable (mv).                                    *)
(***************************************************************************)
Graph == [vars |-> {}, mets |-> {}, vm |-> {}, mv |-> {}]

add_vertex(gr, v) == [gr EXCEPT !.vars = @ \cup {v}]

add_edge_in(gr, v, met) ==
    [gr EXCEPT !.vars = @ \cup {v}, !.mets = @ \cup {met}, !.vm = @ \cup {<<v, met>>}]

add_edge_out(gr, met, v) ==
    [gr EXCEPT !.vars = @ \cup {v}, !.mets = @ \cup {met}, !.mv = @ \cup {<<met, v>>}]

remove_method_vertex(gr, met) ==
    [gr EXCEPT !.mets = @ \ {met},
               !.vm = {e \in @ : e[2] # met},
               !.mv = {e \in @ : e[1] # met}]

remove_variable_vertex(gr, v) ==
    [gr EXCEPT !.vars = @ \ {v},
               !.vm = {e \in @ : e[1] # v},
               !.mv = {e \in @ : e[2] # v}]

ingoing_vertices(gr, v) == {e[1] : e \in {x \in gr.mv : x[2] = v}}

outgoing_vertices(gr, v) == {e[2] : e \in {x \in gr.vm : x[1] = v}}

\* the variables one method away from a variable of S
Successors(gr, S) ==
    {e[2] : e \in {x \in gr.mv : \E y \in gr.vm : y[1] \in S /\ y[2] = x[1]}}

RECURSIVE ReachableFrom(_, _, _)
ReachableFrom(gr, frontier, seen) ==
    LET next == Successors(gr, frontier) \ seen
    IN  IF next = {} THEN seen ELSE ReachableFrom(gr, next, seen \cup next)

\* path(start, end) is a non-empty list exactly when end can be reached from
\* start along one edge or more
path_exists(gr, start, end) == end \in ReachableFrom(gr, {start}, {})

(***************************************************************************)
(* MethodGraph: the fields _graph, _map, _methods and _changed.  _changed  *)
(* is a dict used as a set; its keys are kept in insertion order, which    *)
(* propagate() reads.                                                      *)
(***************************************************************************)
MethodGraph == [graph |-> Graph, map |-> <<>>, methods |-> {}, changed |-> <<>>]

\* self._changed[var] = 1
mark_changed(ch, v) == IF v \in Range(ch) THEN ch ELSE Append(ch, v)

\* if var in self._changed: del(self._changed[var])
clear_changed(ch, v) == SelectSeq(ch, LAMBDA x : x # v)

add_variable(g, varname, value) ==
    IF varname \in DOMAIN g.map
    THEN g
    ELSE [g EXCEPT !.map = (varname :> value) @@ g.map,
                   !.graph = add_vertex(g.graph, varname)]

rem_method(g, met) ==
    [g EXCEPT !.methods = @ \ {met},
              !.graph = remove_method_vertex(g.graph, met)]

RECURSIVE add_inputs(_, _, _)
add_inputs(g, met, i) ==
    IF i > Len(met.inputs) THEN g
    ELSE LET var == met.inputs[i]
             g1  == add_variable(g, var, None)
         IN  add_inputs([g1 EXCEPT !.graph = add_edge_in(g1.graph, var, met)], met, i + 1)

RECURSIVE add_outputs(_, _, _)
add_outputs(g, met, i) ==
    IF i > Len(met.outputs) THEN g
    ELSE LET var == met.outputs[i]
             g1  == add_variable(g, var, None)
         IN  add_outputs([g1 EXCEPT !.graph = add_edge_out(g1.graph, met, var)], met, i + 1)

\* the body of add_method up to the validity check
insert_method(g, met) ==
    add_outputs(add_inputs([g EXCEPT !.methods = @ \cup {met}], met, 1), met, 1)

\* check_validity without the test for a second writer
RECURSIVE check_validity_no_determine(_, _, _)
check_validity_no_determine(g, met, i) ==
    IF i > Len(met.outputs) THEN "none"
    ELSE IF path_exists(g.graph, met.outputs[i], met.outputs[i])
    THEN "MethodGraphCycleException"
    ELSE check_validity_no_determine(g, met, i + 1)

\* check_validity that looks at the first output only
check_validity_first_output(g, met, i) ==
    LET var == met.outputs[1]
    IN  IF Cardinality(ingoing_vertices(g.graph, var)) > 1
        THEN "MethodGraphDetermineException"
        ELSE IF path_exists(g.graph, var, var)
        THEN "MethodGraphCycleException"
        ELSE "none"

\* check_validity with the two tests in the other order
RECURSIVE check_validity_cycle_first(_, _, _)
check_validity_cycle_first(g, met, i) ==
    IF i > Len(met.outputs) THEN "none"
    ELSE LET var == met.outputs[i]
         IN  IF path_exists(g.graph, var, var)
             THEN "MethodGraphCycleException"
             ELSE IF Cardinality(ingoing_vertices(g.graph, var)) > 1
             THEN "MethodGraphDetermineException"
             ELSE check_validity_cycle_first(g, met, i + 1)

\* check_validity without the test for a cycle
RECURSIVE check_validity_no_cycle(_, _, _)
check_validity_no_cycle(g, met, i) ==
    IF i > Len(met.outputs) THEN "none"
    ELSE IF Cardinality(ingoing_vertices(g.graph, met.outputs[i])) > 1
    THEN "MethodGraphDetermineException"
    ELSE check_validity_no_cycle(g, met, i + 1)

\* the loop "for var in met.outputs" that ends add_method's insertion:
\* the exception the first offending output raises, "none" if none does
RECURSIVE check_validity(_, _, _)
check_validity(g, met, i) ==
    IF i > Len(met.outputs) THEN "none"
    ELSE LET var == met.outputs[i]
         IN  IF Cardinality(ingoing_vertices(g.graph, var)) > 1
             THEN "MethodGraphDetermineException"
             ELSE IF path_exists(g.graph, var, var)
             THEN "MethodGraphCycleException"
             ELSE check_validity(g, met, i + 1)

(***************************************************************************)
(* Method.execute of the concrete classes.  An output map is a function    *)
(* from the outputs it holds to their values.                              *)
(***************************************************************************)
execute(met, inmap) ==
    LET a == met.inputs[1]
        b == met.inputs[2]
        c == met.outputs[1]
    IN  IF a \in DOMAIN inmap /\ b \in DOMAIN inmap
           /\ inmap[a] # None /\ inmap[b] # None
        THEN c :> (inmap[a] + inmap[b])
        ELSE <<>>

RECURSIVE update_outputs(_, _, _, _)
update_outputs(g, met, outmap, i) ==
    IF i > Len(met.outputs) THEN g
    ELSE LET var == met.outputs[i]
             g1  == IF var \in DOMAIN outmap
                    THEN [g EXCEPT !.map[var] = outmap[var],
                                   !.changed = mark_changed(@, var)]
                    ELSE IF g.map[var] # None
                    THEN [g EXCEPT !.changed = mark_changed(@, var),
                                   !.map[var] = None]
                    ELSE g
         IN  update_outputs(g1, met, outmap, i + 1)

RECURSIVE clear_inputs(_, _, _)
clear_inputs(ch, met, i) ==
    IF i > Len(met.inputs) THEN ch
    ELSE clear_inputs(clear_changed(ch, met.inputs[i]), met, i + 1)

\* the input maps _do_execute calls method.execute with: none when an
\* input is None
execute_calls(g, met) ==
    LET has_nones == \E i \in DOMAIN met.inputs : g.map[met.inputs[i]] = None
        inmap  == [var \in Range(met.inputs) \cup Range(met.outputs) |-> g.map[var]]
    IN  IF has_nones THEN <<>> ELSE <<inmap>>

\* _do_execute that leaves an output it gets no value for as it is
do_execute_keeps_outputs(g, met) ==
    LET has_nones == \E i \in DOMAIN met.inputs : g.map[met.inputs[i]] = None
        inmap  == [var \in Range(met.inputs) \cup Range(met.outputs) |-> g.map[var]]
        outmap == IF has_nones THEN <<>> ELSE execute(met, inmap)
        g1     == IF outmap = <<>> THEN g ELSE update_outputs(g, met, outmap, 1)
    IN  [g1 EXCEPT !.changed = clear_inputs(@, met, 1)]

do_execute(g, met) ==
    LET has_nones == \E i \in DOMAIN met.inputs : g.map[met.inputs[i]] = None
        inmap  == [var \in Range(met.inputs) \cup Range(met.outputs) |-> g.map[var]]
        outmap == IF has_nones THEN <<>> ELSE execute(met, inmap)
        g1     == update_outputs(g, met, outmap, 1)
    IN  [g1 EXCEPT !.changed = clear_inputs(@, met, 1)]

\* the graphs the loop 'for method in methods' of propagate may leave: the
\* order of the list outgoing_vertices returns is the Graph's
RECURSIVE for_methods(_, _)
for_methods(g, methods) ==
    IF methods = {} THEN {g}
    ELSE UNION {for_methods(do_execute(g, method), methods \ {method}) :
                    method \in methods}

\* the graphs a call of propagate() on g may return with
RECURSIVE propagate(_)
propagate(g) ==
    IF Len(g.changed) = 0 THEN {g}
    ELSE LET first == Head(g.changed)
         IN  UNION {propagate([h EXCEPT !.changed = clear_changed(@, first)]) :
                        h \in for_methods(g, outgoing_vertices(g.graph, first))}

(***************************************************************************)
(* MultiVariable and MultiMethod.  The value of a MultiVariable is a       *)
(* Python list or a Python set of numbers: a collection records which it   *)
(* is.  An input map holds the numbers of the plain variables (plain) and  *)
(* the collections of the MultiVariables (multi).                          *)
(***************************************************************************)
PlainVariables == {"a", "b", "p", "q"}
MultiVariables == {"x", "y", "z", "u", "w"}

NoCollection == [type |-> "None", list |-> <<>>, set |-> {}]
PyList(l) == [type |-> "list", list |-> l, set |-> {}]
PySet(S) == [type |-> "set", list |-> <<>>, set |-> S]

\* the values a loop "for value in values" meets
Contents(c) == IF c.type = "list" THEN Range(c.list) ELSE c.set

SumProdMethod(a, b, c) == Method("SumProdMethod", <<a, b>>, <<c>>)

\* MultiMethod.__init__: the inputs that are MultiVariables, in order
multi_inputs(met) == SelectSeq(met.inputs, LAMBDA v : v \in MultiVariables)

\* SumProdMethod.multi_execute
multi_execute(met, inmap) ==
    LET a == inmap[met.inputs[1]]
        b == inmap[met.inputs[2]]
    IN  <<a + b, a * b>>

\* _recurse_execute returning at the first value of a multi-valued input
RECURSIVE recurse_execute_first_value(_, _, _, _)
recurse_execute_first_value(met, inmap, base_inmap, minputs) ==
    IF Len(minputs) > 0
    THEN LET mvar  == minputs[1]
             value == CHOOSE x \in Contents(inmap.multi[mvar]) : TRUE
             r     == recurse_execute_first_value(met, inmap,
                          (mvar :> value) @@ base_inmap, Tail(minputs))
         IN  [output |-> PySet(Contents(r.output)), calls |-> r.calls, base |-> r.base]
    ELSE [output |-> PyList(multi_execute(met, base_inmap)),
          calls |-> {base_inmap}, base |-> base_inmap]

\* MultiMethod._recurse_execute: its return value (output), the input maps
\* it has passed to multi_execute (calls) and base_inmap as it leaves it
RECURSIVE recurse_execute(_, _, _, _)
RECURSIVE recurse_values(_, _, _, _, _, _)
recurse_execute(met, inmap, base_inmap, minputs) ==
    IF Len(minputs) > 0
    THEN recurse_values(met, inmap, minputs, Contents(inmap.multi[minputs[1]]),
                        base_inmap, [output |-> {}, calls |-> {}])
    ELSE [output |-> PyList(multi_execute(met, base_inmap)),
          calls |-> {base_inmap}, base |-> base_inmap]

\* the loop "for value in values" of _recurse_execute over the values left
recurse_values(met, inmap, minputs, values, base_inmap, acc) ==
    IF values = {}
    THEN [output |-> PySet(acc.output), calls |-> acc.calls, base |-> base_inmap]
    ELSE LET mvar  == minputs[1]
             value == CHOOSE x \in values : TRUE
             r     == recurse_execute(met, inmap, (mvar :> value) @@ base_inmap,
                                      Tail(minputs))
         IN  recurse_values(met, inmap, minputs, values \ {value}, r.base,
                            [output |-> acc.output \cup Contents(r.output),
                             calls  |-> acc.calls \cup r.calls])

\* MultiMethod.execute: the value of the output MultiVariable, with the
\* calls of multi_execute it has made
multi_method_execute(met, inmap) ==
    LET plain_inputs == {v \in Range(met.inputs) : v \notin Range(multi_inputs(met))}
        base_inmap   == [v \in plain_inputs |-> inmap.plain[v]]
    IN  recurse_execute(met, inmap, base_inmap, multi_inputs(met))

\* the MultiMethods of the model: x and y are computed from plain inputs,
\* z from two MultiVariables, u from one MultiVariable named twice, w from
\* a plain input and a MultiVariable
MultiMethods ==
    { SumProdMethod("a", "b", "x"), SumProdMethod("p", "q", "y"),
      SumProdMethod("x", "y", "z"), SumProdMethod("x", "x", "u"),
      SumProdMethod("a", "z", "w") }

(***************************************************************************)
(* Clusters (solver/geometric/cluster.py) over the points 1..NumPoints.    *)
(* A cluster is its class (kind), its variables and, for a Hedgehog, its   *)
(* central variable c_var and its other variables x_vars.  NoCluster is    *)
(* the result None; ValueError is a constructor that raised ValueError.    *)
(***************************************************************************)
Points == 1..NumPoints

NoCluster == [kind |-> "None", vars |-> {}, c_var |-> 0, x_vars |-> {}]
ValueError == [kind |-> "ValueError", vars |-> {}, c_var |-> 0, x_vars |-> {}]

Rigid(vs) == [kind |-> "Rigid", vars |-> vs, c_var |-> 0, x_vars |-> {}]

Hedgehog(c_var, x_vars) ==
    IF Cardinality(x_vars) < 2
    THEN ValueError
    ELSE [kind |-> "Hedgehog", vars |-> x_vars \cup {c_var},
          c_var |-> c_var, x_vars |-> x_vars]

Balloon(vs) ==
    IF Cardinality(vs) < 3
    THEN ValueError
    ELSE [kind |-> "Balloon", vars |-> vs, c_var |-> 0, x_vars |-> {}]

\* every cluster the constructors build over Points
Clusters ==
    {Rigid(S) : S \in SUBSET Points}
    \cup {Hedgehog(c, X) : c \in Points, X \in {Y \in SUBSET Points : Cardinality(Y) >= 2}}
    \cup {Balloon(S) : S \in {Y \in SUBSET Points : Cardinality(Y) >= 3}}

rigid_intersect_rigid(self, shared, rigid) == Rigid(shared)

\* Rigid.intersect_hedgehog that does not ask for the centre in the rigid
rigid_intersect_hedgehog_any_centre(self, shared, hedgehog) ==
    LET x_vars == shared \ {hedgehog.c_var}
    IN  IF Cardinality(x_vars) >= 2
        THEN Hedgehog(hedgehog.c_var, x_vars)
        ELSE NoCluster

rigid_intersect_hedgehog(self, shared, hedgehog) ==
    LET x_vars == shared \ {hedgehog.c_var}
    IN  IF hedgehog.c_var \in self.vars /\ Cardinality(x_vars) >= 2
        THEN Hedgehog(hedgehog.c_var, x_vars)
        ELSE NoCluster

\* Balloon.intersect_rigid without the test of the number of shared variables
balloon_intersect_rigid_unchecked(self, shared, rigid) == Balloon(shared)

balloon_intersect_rigid(self, shared, rigid) ==
    IF Cardinality(shared) < 3 THEN NoCluster ELSE Balloon(shared)

\* Rigid.intersect_balloon answering as Rigid.intersect_rigid does
rigid_intersect_balloon_as_rigid(self, shared, balloon) == Rigid(shared)

rigid_intersect_balloon(self, shared, balloon) ==
    balloon_intersect_rigid(balloon, shared, self)

hedgehog_intersect_rigid(self, shared, rigid) ==
    rigid_intersect_hedgehog(rigid, shared, self)

hedgehog_intersect_hedgehog(self, shared, hedgehog) ==
    LET x_vars == self.x_vars \cap hedgehog.x_vars
    IN  IF self.c_var = hedgehog.c_var /\ Cardinality(x_vars) >= 2
        THEN Hedgehog(self.c_var, x_vars)
        ELSE NoCluster

hedgehog_intersect_balloon(self, shared, balloon) ==
    LET x_vars == shared \ {self.c_var}
    IN  IF self.c_var \in balloon.vars /\ Cardinality(x_vars) >= 2
        THEN Hedgehog(self.c_var, x_vars)
        ELSE NoCluster

balloon_intersect_hedgehog(self, shared, hedgehog) ==
    hedgehog_intersect_balloon(hedgehog, shared, self)

balloon_intersect_balloon(self, shared, balloon) ==
    balloon_intersect_rigid(self, shared, Rigid(balloon.vars))

\* the method of self's class that the call self.intersect_rigid reaches
intersect_rigid(self, shared, rigid) ==
    CASE self.kind = "Rigid"    -> rigid_intersect_rigid(self, shared, rigid)
      [] self.kind = "Hedgehog" -> hedgehog_intersect_rigid(self, shared, rigid)
      [] self.kind = "Balloon"  -> balloon_intersect_rigid(self, shared, rigid)

intersect_hedgehog(self, shared, hedgehog) ==
    CASE self.kind = "Rigid"    -> rigid_intersect_hedgehog(self, shared, hedgehog)
      [] self.kind = "Hedgehog" -> hedgehog_intersect_hedgehog(self, shared, hedgehog)
      [] self.kind = "Balloon"  -> balloon_intersect_hedgehog(self, shared, hedgehog)

intersect_balloon(self, shared, balloon) ==
    CASE self.kind = "Rigid"    -> rigid_intersect_balloon(self, shared, balloon)
      [] self.kind = "Hedgehog" -> hedgehog_intersect_balloon(self, shared, balloon)
      [] self.kind = "Balloon"  -> balloon_intersect_balloon(self, shared, balloon)

\* Cluster.intersection
intersection(self, other) ==
    LET shared == self.vars \cap other.vars
    IN  IF Cardinality(shared) < 2
        THEN NoCluster
        ELSE CASE other.kind = "Rigid"    -> intersect_rigid(self, shared, other)
               [] other.kind = "Hedgehog" -> intersect_hedgehog(self, shared, other)
               [] other.kind = "Balloon"  -> intersect_balloon(self, shared, other)

(***************************************************************************)
(* Relations (solver/relation.py).  A relation keeps the list of its       *)
(* points, each wrapped by np.array: a numpy array of dimension 0 for a    *)
(* point given by its name.  numpy arrays are not hashable, so building a  *)
(* frozenset of them raises TypeError; comparing two arrays of dimension 0 *)
(* gives a numpy boolean.  A comparison answers "True", "False" or the     *)
(* name of the exception it raises.                                        *)
(***************************************************************************)
np_array(a) == [type |-> "ndarray", item |-> a]

PointRelation(kind, points) == [kind |-> kind, points |-> points]

Distance(a, b) == PointRelation("Distance", <<np_array(a), np_array(b)>>)

Angle(a, b, c) == PointRelation("Angle", <<np_array(a), np_array(b), np_array(c)>>)

\* hash(x) is defined for x
hashable(x) == x.type # "ndarray"

\* frozenset(points): the set of the points, or TypeError if one of them
\* is not hashable
frozenset(points) ==
    IF \A i \in DOMAIN points : hashable(points[i])
    THEN [error |-> "none", value |-> {points[i].item : i \in DOMAIN points}]
    ELSE [error |-> "TypeError", value |-> {}]

\* PointRelation.__hash__; the hash of a frozenset is modelled by the set
relation_hash(self) == frozenset(self.points)

\* frozenset(self.points) == frozenset(other.points)
same_points(self, other) ==
    LET f1 == frozenset(self.points)
        f2 == frozenset(other.points)
    IN  IF f1.error # "none" THEN f1.error
        ELSE IF f2.error # "none" THEN f2.error
        ELSE IF f1.value = f2.value THEN "True" ELSE "False"

\* Distance.__eq__
distance_eq(self, other) ==
    IF other.kind = "Distance" THEN same_points(self, other) ELSE "False"

\* Angle.__eq__: "and" does not evaluate its right side when the middle
\* points differ
angle_eq(self, other) ==
    IF other.kind = "Angle"
    THEN IF self.points[2].item = other.points[2].item
         THEN same_points(self, other)
         ELSE "False"
    ELSE "False"

\* self == other for relations
relation_eq(self, other) ==
    IF self.kind = "Distance" THEN distance_eq(self, other) ELSE angle_eq(self, other)

\* A Python set of relations: its elements, or the exception that
\* building it raised.
EmptySet == [error |-> "none", elems |-> {}]

\* set.add: hashes the relation, then compares it with the elements of
\* the same hash
set_add(set, r) ==
    IF set.error # "none" THEN set
    ELSE LET h == relation_hash(r)
         IN  IF h.error # "none" THEN [error |-> h.error, elems |-> {}]
             ELSE LET same == {e \in set.elems : relation_hash(e).value = h.value}
                      errs == {relation_eq(e, r) : e \in same} \ {"True", "False"}
                  IN  IF errs # {}
                      THEN [error |-> CHOOSE x \in errs : TRUE, elems |-> {}]
                      ELSE IF \E e \in same : relation_eq(e, r) = "True"
                      THEN set
                      ELSE [set EXCEPT !.elems = @ \cup {r}]

\* set.add of every relation of rels, and s1 | s2
RECURSIVE set_add_all(_, _)
set_add_all(set, rels) ==
    IF rels = {} THEN set
    ELSE LET r == CHOOSE x \in rels : TRUE
         IN  set_add_all(set_add(set, r), rels \ {r})

set_union(s1, s2) ==
    IF s1.error # "none" THEN s1
    ELSE IF s2.error # "none" THEN s2
    ELSE set_add_all(s1, s2.elems)

(***************************************************************************)
(* Common distances and angles, and counts, of clusters.  list(shared)     *)
(* is taken in increasing order of the points.  A count is a number or     *)
(* the exception raised.                                                   *)
(***************************************************************************)
RECURSIVE SortedList(_)
SortedList(S) ==
    IF S = {} THEN <<>>
    ELSE LET m == CHOOSE x \in S : \A y \in S : x <= y
         IN  <<m>> \o SortedList(S \ {m})

\* the three angles of every triple of the shared variables
triple_angles(shared) ==
    LET n == Len(shared)
    IN  UNION {{Angle(shared[t[1]], shared[t[2]], shared[t[3]]),
                Angle(shared[t[2]], shared[t[3]], shared[t[1]]),
                Angle(shared[t[3]], shared[t[1]], shared[t[2]])} :
                t \in {x \in (1..n) \X (1..n) \X (1..n) : x[1] < x[2] /\ x[2] < x[3]}}

rigid_common_distances(self, other) ==
    IF other.kind # "Rigid" THEN EmptySet
    ELSE LET shared == SortedList(self.vars \cap other.vars)
             n == Len(shared)
         IN  set_add_all(EmptySet,
                {Distance(shared[t[1]], shared[t[2]]) :
                    t \in {x \in (1..n) \X (1..n) : x[2] < x[1]}})

hedgehog_common_distances(self, other) == EmptySet

balloon_common_distances(self, other) == EmptySet

common_distances(self, other) ==
    CASE self.kind = "Rigid"    -> rigid_common_distances(self, other)
      [] self.kind = "Hedgehog" -> hedgehog_common_distances(self, other)
      [] self.kind = "Balloon"  -> balloon_common_distances(self, other)

rigid_common_angles_rigid(self, rigid) ==
    set_add_all(EmptySet, triple_angles(SortedList(self.vars \cap rigid.vars)))

rigid_common_angles_hedgehog(self, hedgehog) ==
    LET shared == SortedList(self.vars \cap hedgehog.x_vars)
        n == Len(shared)
    IN  IF hedgehog.c_var \notin self.vars THEN EmptySet
        ELSE set_add_all(EmptySet,
                {Angle(shared[t[1]], hedgehog.c_var, shared[t[2]]) :
                    t \in {x \in (1..n) \X (1..n) : x[1] < x[2]}})

rigid_common_angles_balloon(self, balloon) ==
    set_add_all(EmptySet, triple_angles(SortedList(self.vars \cap balloon.vars)))

hedgehog_common_angles_rigid(self, rigid) == rigid_common_angles_hedgehog(rigid, self)

hedgehog_common_angles_hedgehog(self, hedgehog) ==
    LET shared == SortedList(self.x_vars \cap hedgehog.x_vars)
        n == Len(shared)
    IN  IF self.c_var # hedgehog.c_var THEN EmptySet
        ELSE set_add_all(EmptySet,
                {Angle(shared[t[1]], self.c_var, shared[t[2]]) :
                    t \in {x \in (1..n) \X (1..n) : x[2] < x[1]}})

balloon_common_angles_hedgehog(self, hedgehog) ==
    LET shared == SortedList(self.vars \cap hedgehog.x_vars)
        n == Len(shared)
    IN  IF hedgehog.c_var \notin self.vars THEN EmptySet
        ELSE set_add_all(EmptySet,
                {Angle(shared[t[1]], hedgehog.c_var, shared[t[2]]) :
                    t \in {x \in (1..n) \X (1..n) : x[1] < x[2]}})

hedgehog_common_angles_balloon(self, balloon) == balloon_common_angles_hedgehog(balloon, self)

balloon_common_angles_rigid(self, rigid) == rigid_common_angles_balloon(rigid, self)

balloon_common_angles_balloon(self, balloon) ==
    set_add_all(EmptySet, triple_angles(SortedList(self.vars \cap balloon.vars)))

common_angles_rigid(self, rigid) ==
    CASE self.kind = "Rigid"    -> rigid_common_angles_rigid(self, rigid)
      [] self.kind = "Hedgehog" -> hedgehog_common_angles_rigid(self, rigid)
      [] self.kind = "Balloon"  -> balloon_common_angles_rigid(self, rigid)

common_angles_hedgehog(self, hedgehog) ==
    CASE self.kind = "Rigid"    -> rigid_common_angles_hedgehog(self, hedgehog)
      [] self.kind = "Hedgehog" -> hedgehog_common_angles_hedgehog(self, hedgehog)
      [] self.kind = "Balloon"  -> balloon_common_angles_hedgehog(self, hedgehog)

common_angles_balloon(self, balloon) ==
    CASE self.kind = "Rigid"    -> rigid_common_angles_balloon(self, balloon)
      [] self.kind = "Hedgehog" -> hedgehog_common_angles_balloon(self, balloon)
      [] self.kind = "Balloon"  -> balloon_common_angles_balloon(self, balloon)

\* Cluster.common_angles
common_angles(self, other) ==
    CASE other.kind = "Rigid"    -> common_angles_rigid(self, other)
      [] other.kind = "Hedgehog" -> common_angles_hedgehog(self, other)
      [] other.kind = "Balloon"  -> common_angles_balloon(self, other)

\* Cluster.over_constraints: common_distances and common_angles are looked
\* up as names of the module, where nothing defines them
over_constraints(self, other) == [error |-> "NameError", elems |-> {}]

\* scipy.special.binom on whole numbers
RECURSIVE binom(_, _)
binom(n, k) ==
    IF k = 0 THEN 1
    ELSE IF n < k THEN 0
    ELSE (binom(n - 1, k - 1) * n) \div k

Count(n) == [error |-> "none", value |-> n]

rigid_n_distances(self) == Count(binom(Cardinality(self.vars), 2))

\* Rigid.n_angles counting each triple once
rigid_n_angles_once(self) == Count(binom(Cardinality(self.vars), 3))

rigid_n_angles(self) == Count(binom(Cardinality(self.vars), 3) * 3)

hedgehog_n_distances(self) == Count(0)

\* Hedgehog.n_angles: the name binomial is not defined
hedgehog_n_angles(self) == [error |-> "NameError", value |-> 0]

balloon_n_distances(self) == Count(0)

balloon_n_angles(self) == Count(binom(Cardinality(self.vars), 3) * 3)

n_distances(self) ==
    CASE self.kind = "Rigid"    -> rigid_n_distances(self)
      [] self.kind = "Hedgehog" -> hedgehog_n_distances(self)
      [] self.kind = "Balloon"  -> balloon_n_distances(self)

n_angles(self) ==
    CASE self.kind = "Rigid"    -> rigid_n_angles(self)
      [] self.kind = "Hedgehog" -> hedgehog_n_angles(self)
      [] self.kind = "Balloon"  -> balloon_n_angles(self)

\* Cluster.n_constraints
n_constraints(self) ==
    LET d == n_distances(self)
        a == n_angles(self)
    IN  IF d.error # "none" THEN d
        ELSE IF a.error # "none" THEN a
        ELSE Count(d.value + a.value)

(***************************************************************************)
(* Configurations (solver/geometric/configuration.py) over whole-number    *)
(* coordinates.  The geometry library (solver/geometry.py) is modelled     *)
(* exactly: a frame is its origin and the direction of its x-axis, and a   *)
(* transform between two frames is the rotation cos/den, sin/den about     *)
(* the origin from followed by the move of from to to.  The division is    *)
(* exact when the x-axes of the two frames have the same length, as they   *)
(* have for a configuration and its image under a rigid motion; a length   *)
(* is within tolerance of zero when it is zero.                            *)
(***************************************************************************)
ConfVars == 1..NumConfVars

Coords == 0..MaxCoord

Vector(x, y) == <<x, y>>

Transform(cos, sin, den, from, to) ==
    [cos |-> cos, sin |-> sin, den |-> den, from |-> from, to |-> to]

\* the rotations by quarter turns about the origin followed by a move
RigidMotions ==
    {Transform(r[1], r[2], 1, Vector(0, 0), Vector(dx, dy)) :
        r \in {<<1, 0>>, <<0, 1>>, <<-1, 0>>, <<0, -1>>}, dx \in Coords, dy \in Coords}

\* the mappings of one to NumConfVars variables to points
Configurations ==
    UNION {[V -> Coords \X Coords] : V \in {W \in SUBSET ConfVars : W # {}}}

make_hcs(p, q) == [o |-> p, u |-> Vector(q[1] - p[1], q[2] - p[2])]

cs_transform_matrix(from, to) ==
    Transform(from.u[1] * to.u[1] + from.u[2] * to.u[2],
              from.u[1] * to.u[2] - from.u[2] * to.u[1],
              from.u[1] * from.u[1] + from.u[2] * from.u[2],
              from.o, to.o)

\* t applied to the point p
transform_point(t, p) ==
    LET dx == p[1] - t.from[1]
        dy == p[2] - t.from[2]
    IN  Vector(t.to[1] + (t.cos * dx - t.sin * dy) \div t.den,
               t.to[2] + (t.sin * dx + t.cos * dy) \div t.den)

\* Configuration.transform
transform(mapping, t) == [v \in DOMAIN mapping |-> transform_point(t, mapping[v])]

\* Scalar.tol_zero((q - p).length) and distance_2p(p, q) within tolerance
coincide(p, q) == p = q

\* the frame of one side of transformation_matrix on two shared variables
two_point_frame(p1, p2) ==
    IF coincide(p1, p2)
    THEN make_hcs(p1, Vector(p1[1] + 1, p1[2]))
    ELSE make_hcs(p1, p2)

\* Configuration.transformation_matrix, on configurations that are not
\* underconstrained; order lists the shared variables as list(shared) does
transformation_matrix(self, other, order) ==
    LET shared == DOMAIN self \cap DOMAIN other
        x == Vector(1, 0)
        o == Vector(0, 0)
    IN  IF Cardinality(shared) = 0
        THEN [t |-> cs_transform_matrix(make_hcs(o, x), make_hcs(o, x)),
              underconstrained |-> TRUE]
        ELSE IF Cardinality(shared) = 1
        THEN LET p11 == self[order[1]]
                 p21 == other[order[1]]
             IN  [t |-> cs_transform_matrix(
                            make_hcs(p21, Vector(p21[1] + 1, p21[2])),
                            make_hcs(p11, Vector(p11[1] + 1, p11[2]))),
                  underconstrained |->
                      Cardinality(DOMAIN self) > 1 /\ Cardinality(DOMAIN other) > 1]
        ELSE LET p11 == self[order[1]]
                 p12 == self[order[2]]
                 p21 == other[order[1]]
                 p22 == other[order[2]]
             IN  [t |-> cs_transform_matrix(two_point_frame(p21, p22),
                                            two_point_frame(p11, p12)),
                  underconstrained |-> coincide(p11, p12) \/ coincide(p21, p22)]

\* Configuration.__eq__
configuration_eq(self, other, order) ==
    IF Cardinality(DOMAIN self) # Cardinality(DOMAIN other) THEN FALSE
    ELSE IF \E var \in DOMAIN self : var \notin DOMAIN other THEN FALSE
    ELSE LET t == transformation_matrix(self, other, order).t
             other_t == transform(other, t)
         IN  \A var \in DOMAIN self : coincide(other_t[var], self[var])

\* A configuration with its flag: [mapping, underconstrained].
\* The flag transformation_matrix returns, without the flags the two
\* configurations came with
underconstrained_here(self, other, order) ==
    transformation_matrix(self.mapping, other.mapping, order).underconstrained

\* the flag transformation_matrix returns
underconstrained(self, other, order) ==
    \/ self.underconstrained
    \/ other.underconstrained
    \/ transformation_matrix(self.mapping, other.mapping, order).underconstrained

\* Configuration.add: the mapping of the new configuration
add(self, c) ==
    [v \in DOMAIN self \cup DOMAIN c |-> IF v \in DOMAIN self THEN self[v] ELSE c[v]]

\* Configuration.merge: the merged configuration, whose own flag is False,
\* and the flag returned with it
merge(self, other, order) ==
    LET t == transformation_matrix(self.mapping, other.mapping, order).t
    IN  [merged |-> [mapping |-> add(self.mapping, transform(other.mapping, t)),
                     underconstrained |-> FALSE],
         underconstrained |-> underconstrained(self, other, order)]

\* the configurations, flagged or not, of points at the two ends of a
\* unit segment, over any of the variables
MergeConfigurations ==
    {[mapping |-> m, underconstrained |-> f] :
        m \in UNION {[V -> {Vector(0, 0), Vector(1, 0)}] : V \in SUBSET ConfVars},
        f \in BOOLEAN}

\* the orders in which list(shared) may list the variables V
Orders(V) ==
    {order \in UNION {[1..n -> V] : n \in {Cardinality(V)}} :
        \A i, j \in DOMAIN order : i # j => order[i] # order[j]}

(***************************************************************************)
(* ConstraintGraph (solver/geometric/constraint.py).  A constraint is its  *)
(* class name and the list of variables it was made with.  A               *)
(* PlusConstraint keeps the list in _variables, and variables() returns    *)
(* it; a SelectionConstraint keeps it in the attribute variables, which    *)
(* hides the method variables(): calling it raises TypeError.  The graph   *)
(* container is the one of the method graph, with the constraints where    *)
(* the methods                                                             *)
(* were and an edge from each variable to each constraint on it; the list  *)
(* outgoing_vertices returns is listed in a fixed order.                   *)
(***************************************************************************)
CVars == 1..NumCVars

Constraint(name, variables) == [name |-> name, variables |-> variables]

PlusConstraint(a, b, c) == Constraint("PlusConstraint", <<a, b, c>>)

NotClockwiseConstraint(v1, v2, v3) == Constraint("NotClockwiseConstraint", <<v1, v2, v3>>)

\* constraint.variables(): the list, or the error the call raises
constraint_variables(constraint) ==
    IF constraint.name = "PlusConstraint"
    THEN [error |-> "none", value |-> constraint.variables]
    ELSE [error |-> "TypeError", value |-> <<>>]

\* PlusConstraints a + a = b and a + b = c, and NotClockwiseConstraints
Triples == {t \in CVars \X CVars \X CVars : t[1] < t[2] /\ t[2] < t[3]}

Constraints ==
    {PlusConstraint(t[1], t[1], t[2]) : t \in {x \in CVars \X CVars : x[1] < x[2]}}
    \cup {PlusConstraint(t[1], t[2], t[3]) : t \in Triples}
    \cup {NotClockwiseConstraint(t[1], t[2], t[3]) : t \in Triples}

RECURSIVE ListOf(_)
ListOf(S) ==
    IF S = {} THEN <<>>
    ELSE LET x == CHOOSE y \in S : TRUE
         IN  <<x>> \o ListOf(S \ {x})

ConstraintGraph == [variables |-> {}, constraints |-> {}, graph |-> Graph]

has_vertex(gr, v) == v \in gr.vars

cg_add_variable(g, var_name) ==
    IF var_name \in g.variables THEN g
    ELSE [g EXCEPT !.variables = @ \cup {var_name},
                   !.graph = add_vertex(@, var_name)]

cg_rem_constraint(g, constraint) ==
    IF constraint \notin g.constraints THEN g
    ELSE [g EXCEPT !.constraints = @ \ {constraint},
                   !.graph = remove_method_vertex(@, constraint)]

get_constraints_on(g, variable) ==
    IF ~has_vertex(g.graph, variable) THEN <<>>
    ELSE ListOf(outgoing_vertices(g.graph, variable))

RECURSIVE cg_rem_constraints(_, _, _)
cg_rem_constraints(g, list, i) ==
    IF i > Len(list) THEN g
    ELSE cg_rem_constraints(cg_rem_constraint(g, list[i]), list, i + 1)

cg_rem_variable(g, var_name) ==
    IF var_name \notin g.variables THEN g
    ELSE LET g1 == cg_rem_constraints(g, get_constraints_on(g, var_name), 1)
         IN  [g1 EXCEPT !.variables = @ \ {var_name},
                        !.graph = remove_variable_vertex(@, var_name)]

RECURSIVE cg_add_edges(_, _, _, _)
cg_add_edges(g, list, constraint, i) ==
    IF i > Len(list) THEN g
    ELSE LET var == list[i]
             g1  == cg_add_variable(g, var)
         IN  cg_add_edges([g1 EXCEPT !.graph = add_edge_in(@, var, constraint)],
                          list, constraint, i + 1)

\* the graph after add_constraint, and the error the call raised: the
\* constraint is entered in the dict before its variables() is called
cg_add_constraint(g, constraint) ==
    IF constraint \in g.constraints THEN [error |-> "none", g |-> g]
    ELSE LET g1 == [g EXCEPT !.constraints = @ \cup {constraint}]
             vs == constraint_variables(constraint)
         IN  IF vs.error # "none" THEN [error |-> vs.error, g |-> g1]
             ELSE [error |-> "none", g |-> cg_add_edges(g1, vs.value, constraint, 1)]

\* get_constraints_on_all that keeps every constraint of the first variable
get_constraints_on_all_unfiltered(g, variables) ==
    IF Len(variables) = 0 THEN [error |-> "none", value |-> <<>>]
    ELSE [error |-> "none", value |-> get_constraints_on(g, variables[1])]

\* the list get_constraints_on_all returns, and the error it raised
get_constraints_on_all(g, variables) ==
    IF Len(variables) = 0 THEN [error |-> "none", value |-> <<>>]
    ELSE LET first == get_constraints_on(g, variables[1])
         IN  IF /\ Len(variables) > 1
                /\ \E i \in DOMAIN first : constraint_variables(first[i]).error # "none"
             THEN [error |-> "TypeError", value |-> <<>>]
             ELSE [error |-> "none",
                   value |-> SelectSeq(first,
                       LAMBDA constraint :
                           \A i \in 2..Len(variables) :
                               variables[i] \in Range(constraint_variables(constraint).value))]

get_constraints_on_any(g, variables) ==
    IF Len(variables) = 0 THEN <<>>
    ELSE ListOf(UNION {Range(get_constraints_on(g, variables[i])) : i \in DOMAIN variables})

(***************************************************************************)
(* State.  mg is the method graph; pc, pick and todo are the position of   *)
(* a running propagate(): "idle" between calls, "while" at the loop test,  *)
(* "for" inside the loop over the methods of the picked variable.  call,   *)
(* exc and pre record the last call of add_method, the exception it        *)
(* signalled and the method graph as it was when the call was made.        *)
(* mm is a store of plain variables and MultiVariables with the last       *)
(* MultiMethod executed on it and the calls of multi_execute it made.      *)
(* cl holds two clusters a and b and, once done, a.intersection(b) and     *)
(* b.intersection(a), and, once measured, a.over_constraints(b) and the    *)
(* counts of a.  rel holds three points and, once done, what the     *)
(* comparisons and hashes of the relations between them gave.  cf holds a  *)
(* configuration and a rigid motion, and cg a constraint graph.            *)
(***************************************************************************)
VARIABLES mg, pc, pick, todo, call, exc, pre, mm, cl, rel, cf, cg, eq

vars == <<mg, pc, pick, todo, call, exc, pre, mm, cl, rel, cf, cg, eq>>

\* the state outside the method graph
others == <<mm, cl, rel, cf, cg, eq>>

\* the state of the method graph
mgvars == <<mg, pc, pick, todo, call, exc, pre>>

NoCall == [op |-> "none", met |-> NoMethod]

InitMethodGraph ==
    /\ mg = MethodGraph
    /\ pc = "idle"
    /\ pick = 0
    /\ todo = {}
    /\ call = NoCall
    /\ exc = "none"
    /\ pre = MethodGraph

NoStore ==
    [plain |-> [v \in PlainVariables |-> 1],
     multi |-> [v \in MultiVariables |-> NoCollection],
     last  |-> NoMethod,
     calls |-> {}]

NoClusters ==
    [a |-> NoCluster, b |-> NoCluster, ab |-> NoCluster, ba |-> NoCluster, done |-> FALSE,
     over |-> EmptySet, distances |-> EmptySet, angles |-> EmptySet,
     n_distances |-> Count(0), n_angles |-> Count(0),
     n_constraints |-> Count(0), measured |-> FALSE]

NoHash == [error |-> "none", value |-> {}]

NoRelations ==
    [a |-> 1, b |-> 1, c |-> 1, done |-> FALSE,
     distance_eq |-> "none", hash_ab |-> NoHash, hash_ba |-> NoHash,
     angle_eq_reversed |-> "none", angle_eq_apex |-> "none",
     both_orders |-> EmptySet,
     compared |-> FALSE, other |-> <<1, 1, 1>>, angle_eq |-> "none",
     hash_angle |-> NoHash, hash_other |-> NoHash]

NoConfiguration ==
    [c |-> <<>>, t |-> Transform(1, 0, 1, Vector(0, 0), Vector(0, 0)),
     order |-> <<>>, equal |-> FALSE, done |-> FALSE,
     self |-> [mapping |-> <<>>, underconstrained |-> FALSE],
     other |-> [mapping |-> <<>>, underconstrained |-> FALSE],
     merged |-> [mapping |-> <<>>, underconstrained |-> FALSE],
     underconstrained |-> FALSE]

\* the constraint graph g, the last call made on it (op) and the error it
\* raised; for rem_variable its variable (var) and the graph as it was when
\* the call was made (was); for a query its list of variables (vs) and the
\* lists returned (all, any)
\* the twin of mg that the same calls are made on with propagate=true
NoTwin == [g |-> MethodGraph, calls |-> 0, done |-> FALSE]

NoConstraintGraph ==
    [g |-> ConstraintGraph, op |-> "none", error |-> "none", var |-> 0,
     vs |-> <<>>, was |-> ConstraintGraph, all |-> <<>>, any |-> <<>>]

Init ==
    /\ InitMethodGraph
    /\ mm = NoStore
    /\ cl = NoClusters
    /\ rel = NoRelations
    /\ cf = NoConfiguration
    /\ cg = NoConstraintGraph
    /\ eq = NoTwin

\* a call other than add_method returns normally
Returns(op) ==
    /\ call' = [op |-> op, met |-> NoMethod]
    /\ exc' = "none"
    /\ pre' = MethodGraph

\* MethodGraph.add_variable
AddVariable(varname, value) ==
    /\ pc = "idle"
    /\ mg' = add_variable(mg, varname, value)
    /\ Returns("add_variable")
    /\ UNCHANGED <<pc, pick, todo>>
    /\ UNCHANGED others

\* MethodGraph.set
Set(varname, value, prop) ==
    /\ pc = "idle"
    /\ varname \in DOMAIN mg.map
    /\ mg' = [mg EXCEPT !.map[varname] = value, !.changed = mark_changed(@, varname)]
    /\ pc' = IF prop THEN "while" ELSE "idle"
    /\ Returns("set")
    /\ UNCHANGED <<pick, todo>>
    /\ UNCHANGED others

\* add_method without the test that the method is in the graph already
AddMethodCallAgain(met, prop) ==
    /\ pc = "idle"
    /\ call' = [op |-> "add_method", met |-> met]
    /\ pre' = mg
    /\ LET g1  == insert_method(mg, met)
           err == check_validity(g1, met, 1)
       IN  IF err # "none"
           THEN /\ mg' = rem_method(g1, met)
                /\ exc' = err
                /\ UNCHANGED pc
           ELSE /\ exc' = "none"
                /\ mg' = IF prop THEN do_execute(g1, met) ELSE g1
                /\ pc' = IF prop THEN "while" ELSE "idle"
    /\ UNCHANGED <<pick, todo>>
    /\ UNCHANGED others

\* MethodGraph.add_method
AddMethodCall(met, prop) ==
    /\ pc = "idle"
    /\ call' = [op |-> "add_method", met |-> met]
    /\ pre' = mg
    /\ IF met \in mg.methods
       THEN /\ exc' = "none"
            /\ UNCHANGED <<mg, pc>>
       ELSE LET g1  == insert_method(mg, met)
                err == check_validity(g1, met, 1)
            IN  IF err # "none"
                THEN /\ mg' = rem_method(g1, met)
                     /\ exc' = err
                     /\ UNCHANGED pc
                ELSE /\ exc' = "none"
                     /\ mg' = IF prop THEN do_execute(g1, met) ELSE g1
                     /\ pc' = IF prop THEN "while" ELSE "idle"
    /\ UNCHANGED <<pick, todo>>
    /\ UNCHANGED others

\* MethodGraph.rem_method
RemMethod(met) ==
    /\ pc = "idle"
    /\ met \in mg.methods
    /\ mg' = rem_method(mg, met)
    /\ Returns("rem_method")
    /\ UNCHANGED <<pc, pick, todo>>
    /\ UNCHANGED others

RECURSIVE rem_methods(_, _)
rem_methods(g, mets) ==
    IF mets = {} THEN g
    ELSE LET met == CHOOSE x \in mets : TRUE
         IN  rem_methods(rem_method(g, met), mets \ {met})

\* rem_variable without the loop over the methods that read the variable
rem_variable_writers_only(g, varname) ==
    LET g1 == [g EXCEPT !.map = [x \in DOMAIN @ \ {varname} |-> @[x]],
                        !.changed = clear_changed(@, varname)]
        g2 == rem_methods(g1, ingoing_vertices(g1.graph, varname))
    IN  [g2 EXCEPT !.graph = remove_variable_vertex(@, varname)]

\* rem_variable that leaves the change flag of the variable
rem_variable_keeps_changed(g, varname) ==
    LET g1 == [g EXCEPT !.map = [x \in DOMAIN @ \ {varname} |-> @[x]]]
        g2 == rem_methods(g1, ingoing_vertices(g1.graph, varname))
        g3 == rem_methods(g2, outgoing_vertices(g2.graph, varname))
    IN  [g3 EXCEPT !.graph = remove_variable_vertex(@, varname)]

rem_variable(g, varname) ==
    LET g1 == [g EXCEPT !.map = [x \in DOMAIN @ \ {varname} |-> @[x]],
                        !.changed = clear_changed(@, varname)]
        g2 == rem_methods(g1, ingoing_vertices(g1.graph, varname))
        g3 == rem_methods(g2, outgoing_vertices(g2.graph, varname))
    IN  [g3 EXCEPT !.graph = remove_variable_vertex(@, varname)]

\* MethodGraph.rem_variable
RemVariable(varname) ==
    /\ pc = "idle"
    /\ varname \in DOMAIN mg.map
    /\ mg' = rem_variable(mg, varname)
    /\ Returns("rem_variable")
    /\ UNCHANGED <<pc, pick, todo>>
    /\ UNCHANGED others

\* MethodGraph.propagate, called on its own
PropagateCall ==
    /\ pc = "idle"
    /\ pc' = "while"
    /\ Returns("propagate")
    /\ UNCHANGED <<mg, pick, todo>>
    /\ UNCHANGED others

\* while len(self._changed) != 0: pick the first key, list its methods
PropagatePick ==
    /\ pc = "while"
    /\ mg.changed # <<>>
    /\ pick' = Head(mg.changed)
    /\ todo' = outgoing_vertices(mg.graph, Head(mg.changed))
    /\ pc' = "for"
    /\ UNCHANGED <<mg, call, exc, pre>>
    /\ UNCHANGED others

\* for method in methods: self._do_execute(method)
PropagateExecute ==
    /\ pc = "for"
    /\ \E met \in todo :
          /\ mg' = do_execute(mg, met)
          /\ todo' = todo \ {met}
    /\ UNCHANGED <<pc, pick, call, exc, pre>>
    /\ UNCHANGED others

\* the end of a round that leaves the picked variable pending
PropagateUnpickKeeps ==
    /\ pc = "for"
    /\ todo = {}
    /\ pick' = 0
    /\ pc' = "while"
    /\ UNCHANGED <<mg, todo, call, exc, pre>>
    /\ UNCHANGED others

\* if pick in self._changed: del(self._changed[pick])
PropagateUnpick ==
    /\ pc = "for"
    /\ todo = {}
    /\ mg' = [mg EXCEPT !.changed = clear_changed(@, pick)]
    /\ pick' = 0
    /\ pc' = "while"
    /\ UNCHANGED <<todo, call, exc, pre>>
    /\ UNCHANGED others

\* the loop test fails: propagate returns
PropagateReturn ==
    /\ pc = "while"
    /\ mg.changed = <<>>
    /\ pc' = "idle"
    /\ UNCHANGED <<mg, pick, todo, call, exc, pre>>
    /\ UNCHANGED others

Propagate == PropagatePick \/ PropagateExecute \/ PropagateUnpick \/ PropagateReturn

(***************************************************************************)
(* Spec: every operation of the method graph on methods of any shape.      *)
(* Every value is None, so that no execute function is called.             *)
(***************************************************************************)
Next ==
    \/ \E v \in Variables : AddVariable(v, None)
    \/ \E v \in Variables, prop \in BOOLEAN : Set(v, None, prop)
    \/ \E met \in GenericMethods : AddMethodCall(met, FALSE)
    \/ \E met \in AddMethods : AddMethodCall(met, TRUE)
    \/ \E met \in GenericMethods : RemMethod(met)
    \/ \E v \in Variables : RemVariable(v)
    \/ PropagateCall
    \/ Propagate

Spec == Init /\ [][Next]_vars

(***************************************************************************)
(* The method graph read off the methods themselves.                       *)
(***************************************************************************)
DeterminedBy(mets, v) == {met \in mets : v \in Range(met.outputs)}

\* the variables that some method of mets computes from a variable of S
Downstream(mets, S) ==
    UNION {Range(met.outputs) : met \in {x \in mets : Range(x.inputs) \cap S # {}}}

RECURSIVE DependsClosure(_, _, _)
DependsClosure(mets, frontier, seen) ==
    LET next == Downstream(mets, frontier) \ seen
    IN  IF next = {} THEN seen ELSE DependsClosure(mets, next, seen \cup next)

\* v has a directed path to itself through the methods mets
OnCycle(mets, v) == v \in DependsClosure(mets, {v}, {})

Rejected == exc \in {"MethodGraphDetermineException", "MethodGraphCycleException"}

\* the last call was add_method(m) for a method m not in the graph
NewMethodCall == call.op = "add_method" /\ call.met \notin pre.methods

\* the outputs of the method of the last add_method call that another
\* method of the graph determined when the call was made
DoublyDetermined(i) == DeterminedBy(pre.methods, call.met.outputs[i]) # {}

\* adding the method of the last add_method call closes a cycle through
\* its i-th output
ClosesCycle(i) == OnCycle(pre.methods \cup {call.met}, call.met.outputs[i])

(***************************************************************************)
(* C1  Single writer: in every state every variable is an output of at     *)
(* most one method of the graph.                                           *)
(***************************************************************************)
C1_SingleWriter ==
    \A v \in Variables : Cardinality(DeterminedBy(mg.methods, v)) <= 1

\* a second writer was offered and refused, and the graph still holds a method
C1_Witness ==
    /\ exc = "MethodGraphDetermineException"
    /\ \E v \in Variables : Cardinality(DeterminedBy(mg.methods, v)) = 1

(***************************************************************************)
(* C2  Acyclicity: in every state no variable has a directed path to       *)
(* itself.                                                                 *)
(***************************************************************************)
C2_Acyclic == \A v \in Variables : ~OnCycle(mg.methods, v)

\* a method closing a cycle was offered and refused, one naming the same
\* variable as input and output among them
C2_Witness ==
    /\ exc = "MethodGraphCycleException"
    /\ mg.methods # {}
    /\ Range(call.met.inputs) \cap Range(call.met.outputs) # {}

(***************************************************************************)
(* C3  Rollback on rejection: whenever add_method signals an exception,    *)
(* the methods, the variables, their values and the pending-change set     *)
(* are those of before the call.                                           *)
(***************************************************************************)
C3_RollbackOnRejection ==
    Rejected =>
        /\ mg.methods = pre.methods
        /\ DOMAIN mg.map = DOMAIN pre.map
        /\ mg.map = pre.map
        /\ mg.changed = pre.changed

(***************************************************************************)
(* C4  Determine rejection.  As claimed: add_method(m) for a new method m  *)
(* signals MethodGraphDetermineException whenever some output of m has     *)
(* another writer, and m is not in the graph afterwards.                   *)
(***************************************************************************)
C4_DetermineRejection ==
    (NewMethodCall /\ \E i \in DOMAIN call.met.outputs : DoublyDetermined(i)) =>
        /\ exc = "MethodGraphDetermineException"
        /\ call.met \notin mg.methods

(***************************************************************************)
(* C4 as amended: add_method(m) for a new method m some output of which    *)
(* has another writer is rejected and m is not in the graph afterwards;    *)
(* the exception is MethodGraphCycleException when an output listed        *)
(* before the first doubly determined one lies on a cycle closed by m,     *)
(* and MethodGraphDetermineException otherwise.                            *)
(***************************************************************************)
C4_DetermineRejectionInOrder ==
    (NewMethodCall /\ \E i \in DOMAIN call.met.outputs : DoublyDetermined(i)) =>
        LET first == CHOOSE i \in DOMAIN call.met.outputs :
                        /\ DoublyDetermined(i)
                        /\ \A j \in 1..(i - 1) : ~DoublyDetermined(j)
        IN  /\ call.met \notin mg.methods
            /\ exc = IF \E j \in 1..(first - 1) : ClosesCycle(j)
                     THEN "MethodGraphCycleException"
                     ELSE "MethodGraphDetermineException"

\* a method of two outputs, the first doubly determined and the second on
\* a cycle the method closes, refused for the first
C4_Witness ==
    /\ NewMethodCall
    /\ Len(call.met.outputs) = 2
    /\ DoublyDetermined(1) /\ ClosesCycle(2)
    /\ exc = "MethodGraphDetermineException"
    /\ call.met \notin mg.methods

(***************************************************************************)
(* C5  Cycle rejection: add_method(m) for a new method m none of whose     *)
(* outputs has another writer signals MethodGraphCycleException whenever   *)
(* m closes a path from one of its outputs back to it, and m is not in     *)
(* the graph afterwards.                                                   *)
(***************************************************************************)
C5_CycleRejection ==
    (/\ NewMethodCall
     /\ \A i \in DOMAIN call.met.outputs : ~DoublyDetermined(i)
     /\ \E i \in DOMAIN call.met.outputs : ClosesCycle(i)) =>
        /\ exc = "MethodGraphCycleException"
        /\ call.met \notin mg.methods

\* a cycle through two methods was offered and refused
C5_Witness ==
    /\ NewMethodCall
    /\ exc = "MethodGraphCycleException"
    /\ Range(call.met.inputs) \cap Range(call.met.outputs) = {}
    /\ pre.methods # {}

(***************************************************************************)
(* SpecFlow: AddMethods over valued variables, every call made with        *)
(* propagate=true; set is called on variables no method determines.        *)
(***************************************************************************)
SetInput(varname, value) ==
    /\ ingoing_vertices(mg.graph, varname) = {}
    /\ Set(varname, value, TRUE)

NextFlow ==
    \/ \E v \in FlowVariables, value \in Values \cup {None} : AddVariable(v, value)
    \/ \E v \in FlowVariables, value \in Values \cup {None} : SetInput(v, value)
    \/ \E met \in FlowMethods : AddMethodCall(met, TRUE)
    \/ Propagate

SpecFlow == Init /\ [][NextFlow]_vars

(***************************************************************************)
(* SpecDefer: AddMethods over valued variables, calls made with either     *)
(* value of propagate, and propagate() called on its own.  A propagate()   *)
(* that has started runs on: the loop is synchronous.                      *)
(***************************************************************************)
NextDefer ==
    \/ \E v \in Variables, value \in Values \cup {None} : AddVariable(v, value)
    \/ \E v \in Variables, value \in Values \cup {None}, prop \in BOOLEAN :
          Set(v, value, prop)
    \/ \E met \in DeferMethods, prop \in BOOLEAN : AddMethodCall(met, prop)
    \/ PropagateCall
    \/ Propagate

SpecDefer == Init /\ [][NextDefer]_vars /\ WF_vars(Propagate)

(***************************************************************************)
(* SpecMulti: the plain variables hold any numbers of 1..MaxInput; the     *)
(* MultiMethods are executed, each when none of its inputs is None, as     *)
(* _do_execute runs them.                                                  *)
(***************************************************************************)
InitMulti ==
    /\ InitMethodGraph
    /\ mm \in {[NoStore EXCEPT !.plain = f] : f \in [PlainVariables -> 1..MaxInput]}
    /\ cl = NoClusters
    /\ rel = NoRelations
    /\ cf = NoConfiguration
    /\ cg = NoConstraintGraph
    /\ eq = NoTwin

ExecuteMulti(met) ==
    /\ \A v \in Range(multi_inputs(met)) : mm.multi[v].type # "None"
    /\ LET r == multi_method_execute(met, [plain |-> mm.plain, multi |-> mm.multi])
       IN  mm' = [mm EXCEPT !.multi[met.outputs[1]] = r.output,
                            !.last = met,
                            !.calls = r.calls]
    /\ UNCHANGED <<mgvars, cl, rel, cf, cg, eq>>

NextMulti == \E met \in MultiMethods : ExecuteMulti(met)

SpecMulti == InitMulti /\ [][NextMulti]_vars

(***************************************************************************)
(* SpecCluster: any two clusters, intersected in both orders.              *)
(***************************************************************************)
InitCluster ==
    /\ InitMethodGraph
    /\ mm = NoStore
    /\ cl \in {[NoClusters EXCEPT !.a = A, !.b = B] : A \in Clusters, B \in Clusters}
    /\ rel = NoRelations
    /\ cf = NoConfiguration
    /\ cg = NoConstraintGraph
    /\ eq = NoTwin

Intersect ==
    /\ ~cl.done
    /\ cl' = [cl EXCEPT !.ab = intersection(cl.a, cl.b),
                        !.ba = intersection(cl.b, cl.a),
                        !.done = TRUE]
    /\ UNCHANGED <<mgvars, mm, rel, cf, cg, eq>>

\* a.over_constraints(b), a.common_distances(b), a.common_angles(b),
\* a.n_distances(), a.n_angles(), a.n_constraints()
Measure ==
    /\ ~cl.measured
    /\ cl' = [cl EXCEPT !.over = over_constraints(cl.a, cl.b),
                        !.distances = common_distances(cl.a, cl.b),
                        !.angles = common_angles(cl.a, cl.b),
                        !.n_distances = n_distances(cl.a),
                        !.n_angles = n_angles(cl.a),
                        !.n_constraints = n_constraints(cl.a),
                        !.measured = TRUE]
    /\ UNCHANGED <<mgvars, mm, rel, cf, cg, eq>>

NextCluster == Intersect \/ Measure

SpecCluster == InitCluster /\ [][NextCluster]_vars

(***************************************************************************)
(* SpecRelation: any three points; the Distances and Angles between them   *)
(* are compared, hashed and put in a set, and the Angle between them is    *)
(* compared with the Angle between any three points.                       *)
(***************************************************************************)
InitRelation ==
    /\ InitMethodGraph
    /\ mm = NoStore
    /\ cl = NoClusters
    /\ rel \in {[NoRelations EXCEPT !.a = t[1], !.b = t[2], !.c = t[3]] :
                    t \in Points \X Points \X Points}
    /\ cf = NoConfiguration
    /\ cg = NoConstraintGraph
    /\ eq = NoTwin

Compare ==
    /\ ~rel.done
    /\ rel' = [rel EXCEPT
            !.done = TRUE,
            !.distance_eq = relation_eq(Distance(rel.a, rel.b), Distance(rel.b, rel.a)),
            !.hash_ab = relation_hash(Distance(rel.a, rel.b)),
            !.hash_ba = relation_hash(Distance(rel.b, rel.a)),
            !.angle_eq_reversed =
                relation_eq(Angle(rel.a, rel.b, rel.c), Angle(rel.c, rel.b, rel.a)),
            !.angle_eq_apex =
                relation_eq(Angle(rel.a, rel.b, rel.c), Angle(rel.b, rel.a, rel.c)),
            !.both_orders =
                set_add(set_add(EmptySet, Distance(rel.a, rel.b)), Distance(rel.b, rel.a))]
    /\ UNCHANGED <<mgvars, mm, cl, cf, cg, eq>>

\* Angle(a, b, c) == Angle(a2, b2, c2), and the hashes of the two
CompareAngles(a2, b2, c2) ==
    /\ rel.done
    /\ ~rel.compared
    /\ rel' = [rel EXCEPT
            !.compared = TRUE,
            !.other = <<a2, b2, c2>>,
            !.angle_eq = relation_eq(Angle(rel.a, rel.b, rel.c), Angle(a2, b2, c2)),
            !.hash_angle = relation_hash(Angle(rel.a, rel.b, rel.c)),
            !.hash_other = relation_hash(Angle(a2, b2, c2))]
    /\ UNCHANGED <<mgvars, mm, cl, cf, cg, eq>>

NextRelation ==
    \/ Compare
    \/ \E a2, b2, c2 \in Points : CompareAngles(a2, b2, c2)

SpecRelation == InitRelation /\ [][NextRelation]_vars

(***************************************************************************)
(* SpecConfiguration: any configuration c and rigid motion t; c is         *)
(* compared with c.transform(t), list(shared) listing the variables in     *)
(* any order.                                                              *)
(***************************************************************************)
InitConfiguration ==
    /\ InitMethodGraph
    /\ mm = NoStore
    /\ cl = NoClusters
    /\ rel = NoRelations
    /\ cf \in {[NoConfiguration EXCEPT !.c = c, !.t = t] :
                    c \in Configurations, t \in RigidMotions}
    /\ cg = NoConstraintGraph
    /\ eq = NoTwin

\* c == c.transform(t)
Equal ==
    /\ ~cf.done
    /\ \E order \in Orders(DOMAIN cf.c) :
          cf' = [cf EXCEPT !.order = order,
                           !.equal = configuration_eq(cf.c, transform(cf.c, cf.t), order),
                           !.done = TRUE]
    /\ UNCHANGED <<mgvars, mm, cl, rel, cg, eq>>

NextConfiguration == Equal

SpecConfiguration == InitConfiguration /\ [][NextConfiguration]_vars

(***************************************************************************)
(* SpecMerge: any two configurations self and other, with any flags;       *)
(* self.merge(other) gives the configuration merged and the flag           *)
(* underconstrained, list(shared) listing the variables in any order.      *)
(***************************************************************************)
InitMerge ==
    /\ InitMethodGraph
    /\ mm = NoStore
    /\ cl = NoClusters
    /\ rel = NoRelations
    /\ cf \in {[NoConfiguration EXCEPT !.self = a, !.other = b] :
                    a \in MergeConfigurations, b \in MergeConfigurations}
    /\ cg = NoConstraintGraph
    /\ eq = NoTwin

\* self.merge(other)
Merge ==
    /\ ~cf.done
    /\ \E order \in Orders(DOMAIN cf.self.mapping \cap DOMAIN cf.other.mapping) :
          LET r == merge(cf.self, cf.other, order)
          IN  cf' = [cf EXCEPT !.order = order,
                               !.merged = r.merged,
                               !.underconstrained = r.underconstrained,
                               !.done = TRUE]
    /\ UNCHANGED <<mgvars, mm, cl, rel, cg, eq>>

NextMerge == Merge

SpecMerge == InitMerge /\ [][NextMerge]_vars

(***************************************************************************)
(* SpecConstraint: every operation of the constraint graph.                *)
(***************************************************************************)
\* the state after a call op that took the constraint graph to g
Called(op, g) == [NoConstraintGraph EXCEPT !.g = g, !.op = op]

ConstraintAddVariable(var_name) ==
    /\ cg' = Called("add_variable", cg_add_variable(cg.g, var_name))
    /\ UNCHANGED <<mgvars, mm, cl, rel, cf, eq>>

ConstraintRemVariable(var_name) ==
    /\ cg' = [Called("rem_variable", cg_rem_variable(cg.g, var_name))
                EXCEPT !.var = var_name, !.was = cg.g]
    /\ UNCHANGED <<mgvars, mm, cl, rel, cf, eq>>

ConstraintAddConstraint(constraint) ==
    /\ Cardinality(cg.g.constraints \cup {constraint}) <= MaxConstraints
    /\ LET added == cg_add_constraint(cg.g, constraint)
       IN  cg' = [Called("add_constraint", added.g) EXCEPT !.error = added.error]
    /\ UNCHANGED <<mgvars, mm, cl, rel, cf, eq>>

ConstraintRemConstraint(constraint) ==
    /\ cg' = Called("rem_constraint", cg_rem_constraint(cg.g, constraint))
    /\ UNCHANGED <<mgvars, mm, cl, rel, cf, eq>>

\* get_constraints_on_all(variables) and get_constraints_on_any(variables)
ConstraintQuery(variables) ==
    /\ LET all == get_constraints_on_all(cg.g, variables)
       IN  cg' = [Called("query", cg.g) EXCEPT
                    !.error = all.error,
                    !.vs = variables,
                    !.all = all.value,
                    !.any = get_constraints_on_any(cg.g, variables)]
    /\ UNCHANGED <<mgvars, mm, cl, rel, cf, eq>>

\* the lists of at most MaxQueryLen different variables
Queries ==
    {q \in UNION {[1..n -> CVars] : n \in 0..MaxQueryLen} :
        \A i, j \in DOMAIN q : i # j => q[i] # q[j]}

NextConstraint ==
    \/ \E v \in CVars : ConstraintAddVariable(v)
    \/ \E v \in CVars : ConstraintRemVariable(v)
    \/ \E c \in Constraints : ConstraintAddConstraint(c)
    \/ \E c \in Constraints : ConstraintRemConstraint(c)
    \/ \E variables \in Queries : ConstraintQuery(variables)

SpecConstraint == Init /\ [][NextConstraint]_vars

(***************************************************************************)
(* SpecRemove: variables are added, set without propagating and removed,   *)
(* and AddMethods are added without propagating, over NumRemVars           *)
(* variables.  A call of rem_variable keeps the method graph it was made   *)
(* on in pre.                                                              *)
(***************************************************************************)
RemVariables == 1..NumRemVars

RemMethods == OrderedAddMethods(RemVariables)

\* MethodGraph.rem_variable
RemVariableCall(varname) ==
    /\ pc = "idle"
    /\ varname \in DOMAIN mg.map
    /\ mg' = rem_variable(mg, varname)
    /\ call' = [op |-> "rem_variable", met |-> NoMethod]
    /\ exc' = "none"
    /\ pre' = mg
    /\ UNCHANGED <<pc, pick, todo>>
    /\ UNCHANGED others

NextRemove ==
    \/ \E v \in RemVariables : AddVariable(v, None)
    \/ \E v \in RemVariables : Set(v, None, FALSE)
    \/ \E met \in RemMethods : AddMethodCall(met, FALSE)
    \/ \E v \in RemVariables : RemVariableCall(v)

SpecRemove == Init /\ [][NextRemove]_vars

(***************************************************************************)
(* SpecExecute: AddMethods over valued variables, added and set without    *)
(* propagating, execute(method) called on a method of the graph, and       *)
(* propagate() called on its own.                                          *)
(* pc is "executed" when execute() has run _do_execute and has not yet     *)
(* called propagate(); pre is the method graph execute() was called on.    *)
(***************************************************************************)
\* MethodGraph.execute, up to the return of _do_execute
ExecuteCall(met) ==
    /\ pc = "idle"
    /\ met \in mg.methods
    /\ mg' = do_execute(mg, met)
    /\ pc' = "executed"
    /\ call' = [op |-> "execute", met |-> met]
    /\ exc' = "none"
    /\ pre' = mg
    /\ UNCHANGED <<pick, todo>>
    /\ UNCHANGED others

\* MethodGraph.execute: self.propagate()
ExecutePropagate ==
    /\ pc = "executed"
    /\ pc' = "while"
    /\ UNCHANGED <<mg, pick, todo, call, exc, pre>>
    /\ UNCHANGED others

NextExecute ==
    \/ \E v \in Variables, value \in Values \cup {None} : AddVariable(v, value)
    \/ \E v \in Variables, value \in Values \cup {None} : Set(v, value, FALSE)
    \/ \E met \in DeferMethods : AddMethodCall(met, FALSE)
    \/ \E met \in DeferMethods : ExecuteCall(met)
    \/ ExecutePropagate
    \/ PropagateCall
    \/ Propagate

SpecExecute == Init /\ [][NextExecute]_vars

(***************************************************************************)
(* SpecStore: every operation of the method graph, clear included, on      *)
(* the ordered AddMethods over valued variables, with either value of      *)
(* propagate.                                                              *)
(***************************************************************************)
\* the graphs clear() may return: list(self._map.keys())[0] is the variable
\* added first, which the map of the model does not record
RECURSIVE clear(_)
clear(g) ==
    IF DOMAIN g.map = {} THEN {g}
    ELSE UNION {clear(rem_variable(g, varname)) : varname \in DOMAIN g.map}

\* MethodGraph.clear
Clear ==
    /\ pc = "idle"
    /\ mg' \in clear(mg)
    /\ call' = [op |-> "clear", met |-> NoMethod]
    /\ exc' = "none"
    /\ pre' = mg
    /\ UNCHANGED <<pc, pick, todo>>
    /\ UNCHANGED others

NextStore ==
    \/ \E v \in Variables, value \in Values \cup {None} : AddVariable(v, value)
    \/ \E v \in Variables, value \in Values \cup {None}, prop \in BOOLEAN :
          Set(v, value, prop)
    \/ \E met \in DeferMethods, prop \in BOOLEAN : AddMethodCall(met, prop)
    \/ \E met \in DeferMethods : RemMethod(met)
    \/ \E v \in Variables : RemVariableCall(v)
    \/ Clear
    \/ PropagateCall
    \/ Propagate

SpecStore == Init /\ [][NextStore]_vars

(***************************************************************************)
(* SpecTwin: set and add_method are called with propagate=false on mg and  *)
(* with propagate=true on its twin eq.g, call for call, and then           *)
(* propagate() is called on mg, once.  eq.calls counts the calls made.     *)
(***************************************************************************)
MaxCalls == 4

TwinVariables == 1..NumFlowVars

TwinSet(varname, value) ==
    /\ pc = "idle"
    /\ ~eq.done
    /\ eq.calls < MaxCalls
    /\ varname \in DOMAIN mg.map
    /\ mg' = [mg EXCEPT !.map[varname] = value, !.changed = mark_changed(@, varname)]
    /\ \E h \in propagate([eq.g EXCEPT !.map[varname] = value,
                                       !.changed = mark_changed(@, varname)]) :
          eq' = [eq EXCEPT !.g = h, !.calls = @ + 1]
    /\ Returns("set")
    /\ UNCHANGED <<pc, pick, todo, mm, cl, rel, cf, cg>>

TwinAddMethod(met) ==
    /\ pc = "idle"
    /\ ~eq.done
    /\ eq.calls < MaxCalls
    /\ call' = [op |-> "add_method", met |-> met]
    /\ pre' = mg
    /\ IF met \in mg.methods
       THEN /\ exc' = "none"
            /\ eq' = [eq EXCEPT !.calls = @ + 1]
            /\ UNCHANGED mg
       ELSE LET g1  == insert_method(mg, met)
                h1  == insert_method(eq.g, met)
                err == check_validity(g1, met, 1)
            IN  IF err # "none"
                THEN /\ mg' = rem_method(g1, met)
                     /\ eq' = [eq EXCEPT !.g = rem_method(h1, met), !.calls = @ + 1]
                     /\ exc' = err
                ELSE /\ exc' = "none"
                     /\ mg' = g1
                     /\ \E h \in propagate(do_execute(h1, met)) :
                           eq' = [eq EXCEPT !.g = h, !.calls = @ + 1]
    /\ UNCHANGED <<pc, pick, todo, mm, cl, rel, cf, cg>>

\* the single propagate() that ends the deferred calls
TwinPropagate ==
    /\ pc = "idle"
    /\ ~eq.done
    /\ pc' = "while"
    /\ eq' = [eq EXCEPT !.done = TRUE]
    /\ Returns("propagate")
    /\ UNCHANGED <<mg, pick, todo, mm, cl, rel, cf, cg>>

NextTwin ==
    \/ \E v \in TwinVariables, value \in Values \cup {None} : TwinSet(v, value)
    \/ \E met \in OrderedAddMethods(TwinVariables) : TwinAddMethod(met)
    \/ TwinPropagate
    \/ Propagate

SpecTwin == Init /\ [][NextTwin]_vars

Consistent(met) ==
    LET a == mg.map[met.inputs[1]]
        b == mg.map[met.inputs[2]]
        c == mg.map[met.outputs[1]]
    IN  IF a # None /\ b # None THEN c = a + b ELSE c = None

C7_DataflowConsistency ==
    pc = "idle" => \A met \in mg.methods : Consistent(met)


(***************************************************************************)
(* C8: MultiMethod.execute calls multi_execute on exactly the Cartesian    *)
(* product of the alternatives of its multi-valued inputs, each combined   *)
(* with the fixed inputs, and the output MultiVariable holds exactly the   *)
(* union of the values those calls return; the chained SumProdMethods over *)
(* (1,2) and (3,4) give {36, 21, 24, 9, 10, 14, 15}.                       *)
(***************************************************************************)
\* one choice per multi-valued input of met, merged with its fixed inputs
ProductAssignments(met) ==
    LET minputs == Range(multi_inputs(met))
        alts    == UNION {Contents(mm.multi[v]) : v \in minputs}
        choices == {f \in [minputs -> alts] :
                        \A v \in minputs : f[v] \in Contents(mm.multi[v])}
    IN  {[v \in Range(met.inputs) |-> IF v \in minputs THEN f[v] ELSE mm.plain[v]] :
            f \in choices}

ChainExample ==
    /\ mm.plain["a"] = 1 /\ mm.plain["b"] = 2
    /\ mm.plain["p"] = 3 /\ mm.plain["q"] = 4
    /\ mm.last = SumProdMethod("x", "y", "z")

C8_MultiMethodFanOut ==
    mm.last # NoMethod =>
        /\ mm.calls = ProductAssignments(mm.last)
        /\ Contents(mm.multi[mm.last.outputs[1]])
               = UNION {Range(multi_execute(mm.last, c)) : c \in ProductAssignments(mm.last)}
        /\ ChainExample => Contents(mm.multi["z"]) = {36, 21, 24, 9, 10, 14, 15}

C8_Witness ==
    /\ ChainExample
    /\ Cardinality(mm.calls) = 4
    /\ Contents(mm.multi["z"]) = {36, 21, 24, 9, 10, 14, 15}

(***************************************************************************)
(* C9: a.intersection(b) and b.intersection(a) are both None, or clusters  *)
(* of the same class with the same variables and, for Hedgehogs, the same  *)
(* central variable.                                                       *)
(***************************************************************************)
SameCluster(x, y) ==
    \/ x.kind = "None" /\ y.kind = "None"
    \/ /\ x.kind \in {"Rigid", "Hedgehog", "Balloon"}
       /\ x.kind = y.kind
       /\ x.vars = y.vars
       /\ x.kind = "Hedgehog" => x.c_var = y.c_var

C9_IntersectionSymmetry == cl.done => SameCluster(cl.ab, cl.ba)

C9_Witness ==
    /\ cl.done
    /\ cl.a.kind = "Balloon" /\ cl.b.kind = "Hedgehog"
    /\ cl.ab.kind = "Hedgehog" /\ cl.ba = cl.ab

(***************************************************************************)
(* C10: with S the shared variables of a and b, a.intersection(b) is None  *)
(* if |S| < 2; else Rigid(S) for two Rigids; Hedgehog(c, S \ {c}) for a    *)
(* Rigid or Balloon with a Hedgehog(c, X) in either order if c is in the   *)
(* Rigid or Balloon and |S \ {c}| >= 2, else None; Balloon(S) for a Rigid  *)
(* with a Balloon in either order and for two Balloons if |S| >= 3, else   *)
(* None; Hedgehog(c, X \cap X') for Hedgehog(c, X) with Hedgehog(c', X')   *)
(* if c = c' and |X \cap X'| >= 2, else None.                              *)
(***************************************************************************)
TableHedgehog(c, X) ==
    [kind |-> "Hedgehog", vars |-> X \cup {c}, c_var |-> c, x_vars |-> X]

IntersectionTable(A, B) ==
    LET S == A.vars \cap B.vars
        kinds == {A.kind, B.kind}
        h == IF A.kind = "Hedgehog" THEN A ELSE B
        o == IF A.kind = "Hedgehog" THEN B ELSE A
    IN  IF Cardinality(S) < 2 THEN NoCluster
        ELSE IF kinds = {"Rigid"}
             THEN [kind |-> "Rigid", vars |-> S, c_var |-> 0, x_vars |-> {}]
        ELSE IF kinds = {"Hedgehog"}
             THEN IF A.c_var = B.c_var /\ Cardinality(A.x_vars \cap B.x_vars) >= 2
                  THEN TableHedgehog(A.c_var, A.x_vars \cap B.x_vars)
                  ELSE NoCluster
        ELSE IF "Hedgehog" \in kinds
             THEN IF h.c_var \in o.vars /\ Cardinality(S \ {h.c_var}) >= 2
                  THEN TableHedgehog(h.c_var, S \ {h.c_var})
                  ELSE NoCluster
        ELSE IF Cardinality(S) >= 3
             THEN [kind |-> "Balloon", vars |-> S, c_var |-> 0, x_vars |-> {}]
             ELSE NoCluster

C10_IntersectionTable ==
    cl.done => /\ cl.ab = IntersectionTable(cl.a, cl.b)
               /\ cl.ba = IntersectionTable(cl.b, cl.a)

\* Rigid({a,b,c,d}) with Hedgehog(a, {b,c,e}) gives Hedgehog(a, {b,c})
C10_Witness ==
    /\ cl.done
    /\ cl.a = Rigid({1, 2, 3, 4})
    /\ cl.b = Hedgehog(1, {2, 3, 5})
    /\ cl.ab = Hedgehog(1, {2, 3})


(***************************************************************************)
(* C14: Distance(a,b) equals Distance(b,a) and both have the same hash;    *)
(* Angle(a,b,c) equals Angle(c,b,a) and, for a # b, does not equal         *)
(* Angle(b,a,c); a set given both orders of a relation holds one element.  *)
(***************************************************************************)
C14_RelationEqualityAndHashing ==
    rel.done =>
        /\ rel.distance_eq = "True"
        /\ rel.hash_ab.error = "none" /\ rel.hash_ba.error = "none"
        /\ rel.hash_ab.value = rel.hash_ba.value
        /\ rel.angle_eq_reversed = "True"
        /\ rel.a # rel.b => rel.angle_eq_apex = "False"
        /\ rel.both_orders.error = "none"
        /\ Cardinality(rel.both_orders.elems) = 1


(***************************************************************************)
(* C11: a.over_constraints(b) returns, raising nothing, the union of the   *)
(* common distances and the common angles of a and b.                      *)
(***************************************************************************)
C11_OverConstraintsTotal ==
    cl.measured =>
        /\ cl.over.error = "none"
        /\ cl.over = set_union(common_distances(cl.a, cl.b), common_angles(cl.a, cl.b))

(***************************************************************************)
(* C12: a Rigid over n variables has n(n-1)/2 distances, n(n-1)(n-2)/2     *)
(* angles and their sum as constraints; a Hedgehog and a Balloon have no   *)
(* distances.                                                              *)
(***************************************************************************)
C12_RigidCounts ==
    cl.measured =>
        LET n == Cardinality(cl.a.vars)
        IN  /\ cl.a.kind = "Rigid" =>
                  /\ cl.n_distances = Count((n * (n - 1)) \div 2)
                  /\ cl.n_angles = Count((n * (n - 1) * (n - 2)) \div 2)
                  /\ cl.n_constraints = Count(cl.n_distances.value + cl.n_angles.value)
            /\ cl.a.kind \in {"Hedgehog", "Balloon"} => cl.n_distances = Count(0)

C12_Witness ==
    /\ cl.measured
    /\ cl.a.kind = "Rigid"
    /\ Cardinality(cl.a.vars) = 4
    /\ cl.n_distances = Count(6) /\ cl.n_angles = Count(12) /\ cl.n_constraints = Count(18)

(***************************************************************************)
(* C13: a Hedgehog(c, X) has |X|(|X|-1)/2 angles, and as many constraints. *)
(***************************************************************************)
C13_HedgehogAngleCount ==
    (cl.measured /\ cl.a.kind = "Hedgehog") =>
        LET n == Cardinality(cl.a.x_vars)
        IN  /\ cl.n_angles = Count((n * (n - 1)) \div 2)
            /\ cl.n_constraints = Count((n * (n - 1)) \div 2)


(***************************************************************************)
(* C15: every configuration c, those whose first two variables coincide    *)
(* included, equals c.transform(t) for every rotation and translation t.   *)
(***************************************************************************)
C15_EqualModuloRigidMotion == cf.done => cf.equal

\* the same holds of the configurations whose first two listed variables
\* differ in position, or that have one variable only
EqualWhenFirstTwoDiffer ==
    (cf.done /\ (Len(cf.order) >= 2 => cf.c[cf.order[1]] # cf.c[cf.order[2]])) => cf.equal


(***************************************************************************)
(* C16: after rem_variable(v) on a variable of the method graph, v is not  *)
(* a variable, v is not pending, and no method of the graph has v among    *)
(* its inputs or its outputs.  v is the variable the graph had when the    *)
(* call was made and has no more.                                          *)
(***************************************************************************)
C16_RemVariableCascades ==
    call.op = "rem_variable" =>
        \E v \in DOMAIN pre.map :
            /\ DOMAIN mg.map = DOMAIN pre.map \ {v}
            /\ v \notin Range(mg.changed)
            /\ \A met \in mg.methods :
                  v \notin Range(met.inputs) \cup Range(met.outputs)

\* the removed variable was pending and had a method, and a method remains
C16_Witness ==
    /\ call.op = "rem_variable"
    /\ \E v \in DOMAIN pre.map \ DOMAIN mg.map :
          /\ v \in Range(pre.changed)
          /\ pre.methods # mg.methods
    /\ mg.methods # {}

(***************************************************************************)
(* C17: after rem_variable(v) on a variable of the constraint graph, v is  *)
(* not among the variables, no constraint on v remains, and every other    *)
(* variable remains.                                                       *)
(***************************************************************************)
C17_ConstraintRemVariableCascades ==
    (cg.op = "rem_variable" /\ cg.var \in cg.was.variables) =>
        /\ cg.var \notin cg.g.variables
        /\ \A c \in cg.g.constraints : cg.var \notin Range(c.variables)
        /\ cg.g.variables = cg.was.variables \ {cg.var}

(***************************************************************************)
(* C18: in every state get_constraints_on(v) lists exactly the constraints *)
(* of the graph whose variables contain v, nothing if v is absent, and     *)
(* every variable of every constraint of the graph is a variable of it.    *)
(***************************************************************************)
C18_ConstraintIndexExact ==
    /\ \A v \in CVars :
          LET on == get_constraints_on(cg.g, v)
          IN  /\ Range(on) = {c \in cg.g.constraints : v \in Range(c.variables)}
              /\ Len(on) = Cardinality(Range(on))
              /\ v \notin cg.g.variables => on = <<>>
    /\ \A c \in cg.g.constraints : Range(c.variables) \subseteq cg.g.variables

\* the same for the constraints whose variables() returns
IndexExactOfPlusConstraints ==
    LET plus == {c \in cg.g.constraints : constraint_variables(c).error = "none"}
    IN  /\ \A v \in CVars :
              LET on == get_constraints_on(cg.g, v)
              IN  /\ Range(on) = {c \in plus : v \in Range(c.variables)}
                  /\ Len(on) = Cardinality(Range(on))
                  /\ v \notin cg.g.variables => on = <<>>
        /\ \A c \in plus : Range(c.variables) \subseteq cg.g.variables

(***************************************************************************)
(* C19: get_constraints_on_all(Vs) lists exactly the constraints that are  *)
(* in get_constraints_on(v) for every v of Vs, in the order of             *)
(* get_constraints_on(Vs[0]), nothing for an empty Vs;                     *)
(* get_constraints_on_any(Vs) lists exactly the constraints that are in    *)
(* get_constraints_on(v) for some v of Vs, each once.                      *)
(***************************************************************************)
C19_OnAllOnAny ==
    cg.op = "query" =>
        LET on(i) == get_constraints_on(cg.g, cg.vs[i])
        IN  /\ cg.error = "none"
            /\ cg.vs = <<>> => cg.all = <<>> /\ cg.any = <<>>
            /\ cg.vs # <<>> =>
                  /\ cg.all = SelectSeq(on(1),
                                 LAMBDA c : \A i \in DOMAIN cg.vs : c \in Range(on(i)))
                  /\ Range(cg.any) = UNION {Range(on(i)) : i \in DOMAIN cg.vs}
                  /\ Len(cg.any) = Cardinality(Range(cg.any))

\* two variables share one constraint of the two on the first
C19_Witness ==
    /\ cg.op = "query"
    /\ Len(cg.vs) = 2 /\ cg.vs[1] # cg.vs[2]
    /\ Len(cg.all) = 1
    /\ Len(get_constraints_on(cg.g, cg.vs[1])) = 2
    /\ Len(cg.any) = 2

(***************************************************************************)
(* C20: a variable picked by propagate() is pending until every method     *)
(* that reads it has been executed in the round: while a reader is still   *)
(* to run, the picked variable is in the pending set.                      *)
(***************************************************************************)
C20_PickedStaysPending ==
    (pc = "for" /\ todo # {}) => pick \in Range(mg.changed)

(***************************************************************************)
(* C21: when a method is executed with a null input, its execute function  *)
(* is not called, every output that was not null is set to null and marked *)
(* changed, and every output that was null stays null and is pending only  *)
(* if it was pending already.                                              *)
(***************************************************************************)
HasNullInput(g, met) == \E i \in DOMAIN met.inputs : g.map[met.inputs[i]] = None

C22_MultiMethodOutputIsSet ==
    mm.last # NoMethod =>
        LET out == mm.multi[mm.last.outputs[1]]
        IN  /\ out.type = "set"
            /\ Len(out.list) = Cardinality(Range(out.list))

(***************************************************************************)
(* C23: common_angles gives, for two clusters that are Rigids or Balloons, *)
(* the three angles of every three shared variables; for a Hedgehog and a  *)
(* Rigid or Balloon that holds its centre, the angles at the centre over   *)
(* every pair of the spokes the other holds, and nothing if it does not    *)
(* hold the centre; for two Hedgehogs of the same centre, the angles at    *)
(* the centre over every pair of shared spokes, and nothing if the centres *)
(* differ.  common_distances gives one Distance for every pair of shared   *)
(* variables of two Rigids, and nothing otherwise.  An angle is told by    *)
(* its apex and its pair of legs, a distance by its pair of points.        *)
(***************************************************************************)
Pairs(S) == {P \in SUBSET S : Cardinality(P) = 2}

ApexAngles(c, S) == {<<c, P>> : P \in Pairs(S)}

ExpectedAngles(A, B) ==
    LET S == A.vars \cap B.vars
    IN  CASE A.kind = "Hedgehog" /\ B.kind = "Hedgehog" ->
                IF A.c_var = B.c_var THEN ApexAngles(A.c_var, A.x_vars \cap B.x_vars) ELSE {}
          [] A.kind = "Hedgehog" /\ B.kind # "Hedgehog" ->
                IF A.c_var \in B.vars THEN ApexAngles(A.c_var, B.vars \cap A.x_vars) ELSE {}
          [] A.kind # "Hedgehog" /\ B.kind = "Hedgehog" ->
                IF B.c_var \in A.vars THEN ApexAngles(B.c_var, A.vars \cap B.x_vars) ELSE {}
          [] OTHER ->
                UNION {ApexAngles(b, S \ {b}) : b \in S}

ExpectedDistances(A, B) ==
    IF A.kind = "Rigid" /\ B.kind = "Rigid" THEN Pairs(A.vars \cap B.vars) ELSE {}

AngleKey(r) == <<r.points[2].item, {r.points[1].item, r.points[3].item}>>

DistanceKey(r) == {r.points[1].item, r.points[2].item}

C23_CommonAnglesPerPair ==
    cl.measured =>
        /\ cl.angles.error = "none"
        /\ {AngleKey(r) : r \in cl.angles.elems} = ExpectedAngles(cl.a, cl.b)
        /\ Cardinality(cl.angles.elems) = Cardinality(ExpectedAngles(cl.a, cl.b))
        /\ cl.distances.error = "none"
        /\ {DistanceKey(r) : r \in cl.distances.elems} = ExpectedDistances(cl.a, cl.b)
        /\ Cardinality(cl.distances.elems) = Cardinality(ExpectedDistances(cl.a, cl.b))

\* the same where no relation is put in a set
NoCommonRelations ==
    (cl.measured /\ ExpectedAngles(cl.a, cl.b) = {} /\ ExpectedDistances(cl.a, cl.b) = {}) =>
        cl.angles = EmptySet /\ cl.distances = EmptySet

(***************************************************************************)
(* C24: Angle(a, b, c) == Angle(a2, b2, c2) is true exactly when b = b2    *)
(* and {a, c} = {a2, c2}, and false otherwise; two equal angles have equal *)
(* hashes.                                                                 *)
(***************************************************************************)
C24_AngleEqualityExact ==
    rel.compared =>
        LET same == /\ rel.b = rel.other[2]
                    /\ {rel.a, rel.c} = {rel.other[1], rel.other[3]}
        IN  /\ rel.angle_eq = (IF same THEN "True" ELSE "False")
            /\ same =>
                  /\ rel.hash_angle.error = "none"
                  /\ rel.hash_other.error = "none"
                  /\ rel.hash_angle.value = rel.hash_other.value

(***************************************************************************)
(* C25: the flag self.merge(other) returns is true when the two            *)
(* configurations share no variable; when they share exactly one, it is    *)
(* true exactly when both have more than one variable or one of them was   *)
(* flagged underconstrained; a flag on either side makes it true.          *)
(***************************************************************************)
C25_UnderconstrainedFlag ==
    cf.done =>
        LET vs == DOMAIN cf.self.mapping
            vo == DOMAIN cf.other.mapping
            prior == cf.self.underconstrained \/ cf.other.underconstrained
        IN  /\ vs \cap vo = {} => cf.underconstrained
            /\ Cardinality(vs \cap vo) = 1 =>
                  (cf.underconstrained <=>
                      (Cardinality(vs) > 1 /\ Cardinality(vo) > 1) \/ prior)
            /\ prior => cf.underconstrained

\* one shared variable, one side of a single variable, the other flagged
C25_Witness ==
    /\ cf.done
    /\ Cardinality(DOMAIN cf.self.mapping \cap DOMAIN cf.other.mapping) = 1
    /\ Cardinality(DOMAIN cf.self.mapping) = 1
    /\ Cardinality(DOMAIN cf.other.mapping) > 1
    /\ cf.other.underconstrained /\ ~cf.self.underconstrained
    /\ cf.underconstrained

(***************************************************************************)
(* C26: add_method(m) for a method m that is in the graph already returns  *)
(* with the methods, the variables, their values and the pending set as    *)
(* they were, and without having executed m or started to propagate.       *)
(***************************************************************************)
C26_AddMethodIdempotent ==
    (call.op = "add_method" /\ call.met \in pre.methods) =>
        /\ mg = pre
        /\ pc = "idle"
        /\ exc = "none"

\* the method added again has an input with a value pending
C26_Witness ==
    /\ call.op = "add_method"
    /\ call.met \in pre.methods
    /\ call.met.inputs[1] \in Range(pre.changed)
    /\ pre.map[call.met.inputs[1]] # None
    /\ pre.map[call.met.outputs[1]] = None

(***************************************************************************)
(* C27: when the calls of set and add_method made with propagate=false     *)
(* have been followed by one propagate() and it has returned, every        *)
(* variable holds the value it holds after the same calls made with        *)
(* propagate=true.                                                         *)
(***************************************************************************)
C27_DeferredEqualsImmediate ==
    (eq.done /\ pc = "idle") =>
        \A v \in DOMAIN mg.map : mg.map[v] = eq.g.map[v]

(***************************************************************************)
(* C28: in every state reached through add_variable, add_method,           *)
(* rem_method, rem_variable, set on existing variables, propagate and      *)
(* clear, the inputs and outputs of every method of the graph are          *)
(* variables of the graph, and so is every variable of the pending set.    *)
(***************************************************************************)
C28_StoreConsistent ==
    /\ \A met \in mg.methods :
          Range(met.inputs) \cup Range(met.outputs) \subseteq DOMAIN mg.map
    /\ Range(mg.changed) \subseteq DOMAIN mg.map

\* a pending variable with a method on it was removed while another
\* variable is pending
C28_Witness ==
    /\ call.op = "rem_variable"
    /\ \E v \in DOMAIN pre.map \ DOMAIN mg.map :
          /\ v \in Range(pre.changed)
          /\ \E met \in pre.methods : v \in Range(met.inputs) \cup Range(met.outputs)
    /\ mg.changed # <<>>

(***************************************************************************)
(* C29: for clusters a and b whose Hedgehogs have their centre outside     *)
(* their other variables, a.intersection(b) raises no ValueError, and a    *)
(* cluster it returns has its variables among the shared ones, at least    *)
(* two other variables and the centre outside them if it is a Hedgehog,    *)
(* and at least three variables if it is a Balloon.                        *)
(***************************************************************************)
Constructed(c) == c.kind = "Hedgehog" => c.c_var \notin c.x_vars

C29_IntersectionWellFormed ==
    (cl.done /\ Constructed(cl.a) /\ Constructed(cl.b)) =>
        /\ cl.ab.kind # "ValueError"
        /\ cl.ab.kind # "None" => cl.ab.vars \subseteq cl.a.vars \cap cl.b.vars
        /\ cl.ab.kind = "Hedgehog" =>
              /\ Cardinality(cl.ab.x_vars) >= 2
              /\ cl.ab.c_var \notin cl.ab.x_vars
              /\ cl.ab.vars = cl.ab.x_vars \cup {cl.ab.c_var}
        /\ cl.ab.kind = "Balloon" => Cardinality(cl.ab.vars) >= 3

\* a Hedgehog and a Balloon that share more than the Hedgehog they give,
\* and a Balloon and a Rigid that share two variables and give no cluster
C29_Witness ==
    /\ cl.done
    /\ Constructed(cl.a) /\ Constructed(cl.b)
    /\ \/ /\ cl.a.kind = "Hedgehog" /\ cl.b.kind = "Balloon"
          /\ cl.ab.kind = "Hedgehog"
          /\ cl.ab.vars # cl.a.vars /\ cl.ab.vars # cl.b.vars
       \/ /\ cl.a.kind = "Balloon" /\ cl.b.kind = "Rigid"
          /\ Cardinality(cl.a.vars \cap cl.b.vars) = 2
          /\ cl.ab.kind = "None"

(***************************************************************************)
(* C30: common_distances(a, b) and common_angles(a, b) return sets whose   *)
(* union has as many relations as a.intersection(b) has constraints when   *)
(* the intersection is a cluster, and is empty when it is None.            *)
(***************************************************************************)
C30_OverConstraintCount ==
    (cl.done /\ cl.measured) =>
        /\ cl.distances.error = "none"
        /\ cl.angles.error = "none"
        /\ IF cl.ab.kind = "None"
           THEN cl.distances.elems \cup cl.angles.elems = {}
           ELSE n_constraints(cl.ab) =
                    Count(Cardinality(cl.distances.elems \cup cl.angles.elems))

============================================================================
